---- MODULE Spec2Model ----
(***************************************************************************)
(* AELikeRuleElement (src/module/rules/rule-element/ae-like.ts): a rule    *)
(* element that patches one property of the owning actor's data during    *)
(* data preparation, in the manner of an ActiveEffect.                     *)
(*                                                                         *)
(* JavaScript values are tagged records, so that typeof, ?? and === are    *)
(* computed and not assumed.  A string is its sequence of dot-separated    *)
(* segments: "data.hp" is <<"data", "hp">>.                                *)
(***************************************************************************)
EXTENDS Integers, Sequences, FiniteSets, TLC

\* ---------------------------------------------------------------- bounds
\* Numbers of the data tree and of rule values range over -MaxInt..MaxInt.
MaxInt == 2

\* ---------------------------------------------------------------- values
Undef == [t |-> "undefined"]
Null == [t |-> "null"]
NaN == [t |-> "NaN"]
Num(n) == [t |-> "number", n |-> n]
Str(segs) == [t |-> "string", s |-> segs]
S(word) == Str(<<word>>)
Bool(b) == [t |-> "boolean", b |-> b]
Arr(elems) == [t |-> "array", a |-> elems]
Obj(members) == [t |-> "object", o |-> members]
\* A reference to the object (or array) held as this.data.value of rule d:
\* objects are shared by reference, never copied, by resolveValue and setProperty.
Ref(d) == [t |-> "ref", d |-> d]

\* The JavaScript typeof operator.
TypeOf(v) ==
    CASE v.t \in {"number", "NaN"} -> "number"
      [] v.t \in {"null", "array", "object", "ref"} -> "object"
      [] OTHER -> v.t

\* The ?? operator.
Nullish(v) == v.t \in {"undefined", "null"}
Coalesce(v, default) == IF Nullish(v) THEN default ELSE v

\* The static table of change modes, in priority order.
CHANGE_MODES == <<"multiply", "add", "downgrade", "upgrade", "override">>

\* ---------------------------------------------------------------- strings
\* A placeholder of a path or value string, "{item|flags.x}" in the source data;
\* it is one whole segment and is not made of word characters.
Placeholder == "{ref}"
IsWord(seg) == seg # Placeholder

\* RuleElementPF2e#resolveInjectedProperties: every placeholder is replaced by
\* the property it names, or by the text "undefined" when that property is unset.
resolveInjectedProperties(str, binding) ==
    IF str.t # "string" THEN str
    ELSE Str([i \in 1..Len(str.s) |->
                IF str.s[i] = Placeholder
                THEN (IF binding.t = "string" THEN binding.s[1] ELSE "undefined")
                ELSE str.s[i]])

\* /\bundefined\b/.test(path)
HasUndefinedToken(str) == \E i \in 1..Len(str.s) : str.s[i] = "undefined"

\* path.replace(/\.\w+$/, "")
DropLastSegment(segs) ==
    IF Len(segs) >= 2 /\ IsWord(segs[Len(segs)]) THEN SubSeq(segs, 1, Len(segs) - 1) ELSE segs

\* path.replace(/\.?\w+\.\w+$/, "")
DropLastTwoSegments(segs) ==
    IF Len(segs) >= 2 /\ IsWord(segs[Len(segs)]) /\ IsWord(segs[Len(segs) - 1])
    THEN SubSeq(segs, 1, Len(segs) - 2)
    ELSE segs

\* ---------------------------------------------------------------- data tree
\* The object a reference designates; any other value is itself.
Deref(v, rules) == IF v.t = "ref" THEN rules[v.d].data.value ELSE v

\* getProperty(object, key): walk the segments of key; a missing key, and the
\* empty key, give undefined.
RECURSIVE getPropertyAt(_, _, _)
getPropertyAt(node, segs, rules) ==
    IF segs = <<>> THEN node
    ELSE LET target == Deref(node, rules) IN
         IF target.t = "object" /\ Head(segs) \in DOMAIN target.o
         THEN getPropertyAt(target.o[Head(segs)], Tail(segs), rules)
         ELSE Undef

getProperty(data, segs, rules) ==
    IF segs = <<>> THEN Undef ELSE getPropertyAt(data, segs, rules)

\* The tree as its readers see it: each reference stands for the object it
\* designates.
RECURSIVE Contents(_, _)
Contents(node, rules) ==
    LET target == Deref(node, rules)
    IN  CASE target.t = "object" -> Obj([k \in DOMAIN target.o |-> Contents(target.o[k], rules)])
          [] target.t = "array" ->
                Arr([i \in 1..Len(target.a) |-> Contents(target.a[i], rules)])
          [] OTHER -> target

\* setProperty(object, key, value): walk the segments, creating an empty object
\* for each missing intermediate key, and assign the last one.  A write beneath a
\* referenced object lands in the rule that owns the object.  The result is the
\* new tree and the new rules.
RECURSIVE setPropertyAt(_, _, _, _)
setPropertyAt(node, segs, value, rules) ==
    IF segs = <<>> THEN [node |-> value, rules |-> rules]
    ELSE IF node.t = "ref"
    THEN LET r == setPropertyAt(rules[node.d].data.value, segs, value, rules)
         IN  [node |-> node, rules |-> [r.rules EXCEPT ![node.d].data.value = r.node]]
    ELSE LET members == IF node.t = "object" THEN node.o ELSE <<>>
             child == IF Head(segs) \in DOMAIN members
                      THEN members[Head(segs)]
                      ELSE IF Len(segs) = 1 THEN Undef ELSE Obj(<<>>)
             r == setPropertyAt(child, Tail(segs), value, rules)
         IN  [node |-> Obj((Head(segs) :> r.node) @@ members), rules |-> r.rules]

setProperty(data, segs, value, rules) == setPropertyAt(data, segs, value, rules)

\* isObject from @util
isObject(v) == TypeOf(v) = "object" /\ v.t # "null"

\* ---------------------------------------------------------------- state
VARIABLES
    ruleSources,  \* the rules of the item as stored in its source data (AELikeSource)
    rules,        \* the constructed rule elements: this.data and this.ignored
    item,         \* the owning item
    sourceHp,     \* data.attributes.hp in the owner's stored source data
    actorData,    \* this.actor.data, the data tree
    autoChanges,  \* this.actor.data.data.autoChanges: resolved path -> entries
    warnings,     \* the console.warn calls of the construction or of the current cycle
    rollOptions,  \* this.actor.getRollOptions(["all"])
    binding,      \* the property the placeholder names, undefined while unset
    phase,        \* where the owner's data preparation stands
    pos,          \* position in the priority-ordered rules of the current phase
    applyCount,   \* per rule, the calls of applyAELike in the current cycle
    everWarned,   \* the rules whose apply has warned, in this cycle or an earlier one
    previous      \* the tree and the change log the cycle before ended with, if kept

vars == <<ruleSources, rules, item, sourceHp, actorData, autoChanges, warnings,
          rollOptions, binding, phase, pos, applyCount, everWarned, previous>>

\* ---------------------------------------------------------------- paths of the tree
HpPath == <<"data", "attributes", "hp">>
InjectedPath == <<"data", "attributes", Placeholder>>
FlagsPath == <<"data", "flags">>
FlagsMemberPath == <<"data", "flags", "a">>
MissingPath == <<"x", "y", "z">>

\* The actor's data at the start of a cycle, rebuilt from its source: hp is the
\* stored value of data.attributes.hp, absent when undefined.
BaseData(hp) ==
    Obj("data" :> Obj("attributes" :> (IF hp = Undef THEN Obj(<<>>) ELSE Obj("hp" :> hp))))

\* The owner's data when the item's rules are constructed.
InitialHp == Num(1)
InitialData == BaseData(InitialHp)

\* ---------------------------------------------------------------- constructor
Includes(seq, x) == \E i \in 1..Len(seq) : seq[i] = x
IndexOf(seq, x) == (CHOOSE i \in 1..Len(seq) : seq[i] = x) - 1

IsChangeMode(mode) ==
    TypeOf(mode) = "string" /\ Len(mode.s) = 1 /\ Includes(CHANGE_MODES, mode.s[1])

\* The mode table read from its end: the later the mode, the lower the priority.
DefaultPriorityReversed(mode) ==
    IF IsChangeMode(mode)
    THEN Num((Len(CHANGE_MODES) - 1 - IndexOf(CHANGE_MODES, mode.s[1])) * 10 + 10)
    ELSE NaN

\* The priority computed from indexOf alone, which is -1 for what the table lacks.
DefaultPriorityUnchecked(mode) ==
    IF IsChangeMode(mode) THEN Num(IndexOf(CHANGE_MODES, mode.s[1]) * 10 + 10) ELSE Num(0)

\* data.priority ??= (mode is a change mode) ? indexOf(mode) * 10 + 10 : NaN
DefaultPriority(mode) ==
    IF IsChangeMode(mode) THEN Num(IndexOf(CHANGE_MODES, mode.s[1]) * 10 + 10) ELSE NaN

\* x !== undefined, on values
StrictNotUndefined(v) == v # Undef

\* typeof this.path === "string" && [path, path less one segment, path less two
\* segments].some((path) => typeof getProperty(actor.data, path) !== undefined).
\* typeof yields a string, and it is that string which is compared with undefined.
pathIsValid(path, data, rs) ==
    /\ TypeOf(path) = "string"
    /\ \E cand \in {path.s, DropLastSegment(path.s), DropLastTwoSegments(path.s)} :
          StrictNotUndefined(S(TypeOf(getProperty(data, cand, rs))))

valueIsValid(value) == TypeOf(value) \in {"number", "string", "boolean", "object"}

\* this.warn(property): one console.warn naming the property; rule is the caller.
warn(log, d, property) == Append(log, [rule |-> d, property |-> property])

\* A constructor that stops at the first check that fails.
ConstructedShortCircuit(src, d, data, rs, log) ==
    LET priority == Coalesce(src.priority, DefaultPriority(src.mode))
        normalized == [src EXCEPT !.priority = priority,
                                  !.phase = Coalesce(src.phase, S("applyAEs"))]
        pathOk == pathIsValid(normalized.path, data, rs)
        valueOk == valueIsValid(normalized.value)
    IN  IF priority = NaN
        THEN [rule |-> [data |-> normalized, ignored |-> TRUE], warnings |-> log]
        ELSE IF ~pathOk
        THEN [rule |-> [data |-> normalized, ignored |-> TRUE], warnings |-> warn(log, d, "path")]
        ELSE [rule |-> [data |-> normalized, ignored |-> ~valueOk],
              warnings |-> IF valueOk THEN log ELSE warn(log, d, "value")]

\* new AELikeRuleElement(data, item): the normalized data and the ignored flag,
\* with the warnings it emits.
Constructed(src, d, data, rs, log) ==
    LET priority == Coalesce(src.priority, DefaultPriority(src.mode))
        normalized == [src EXCEPT !.priority = priority,
                                  !.phase = Coalesce(src.phase, S("applyAEs"))]
        pathOk == pathIsValid(normalized.path, data, rs)
        valueOk == valueIsValid(normalized.value)
        log1 == IF pathOk THEN log ELSE warn(log, d, "path")
        log2 == IF valueOk THEN log1 ELSE warn(log1, d, "value")
    IN  IF priority = NaN
        THEN [rule |-> [data |-> normalized, ignored |-> TRUE], warnings |-> log]
        ELSE [rule |-> [data |-> normalized, ignored |-> ~(pathOk /\ valueOk)],
              warnings |-> log2]

\* ---------------------------------------------------------------- change log
\* Number(/-(\d+)$/.exec(location ?? "")?.[1]): the number the trailing digits of
\* the location denote, NaN when the location has no such suffix.
RECURSIVE DigitsValue(_)
DigitsValue(digits) ==
    IF digits = <<>> THEN 0
    ELSE 10 * DigitsValue(SubSeq(digits, 1, Len(digits) - 1)) + digits[Len(digits)]

LocationNumber(location) ==
    LET text == Coalesce(location, [t |-> "string", suffix |-> <<>>])
    IN  IF text.suffix = <<>> THEN NaN ELSE Num(DigitsValue(text.suffix))

\* x || y on numbers: y when x is 0 or NaN
OrElse(x, y) == IF x = NaN \/ x = Num(0) THEN y ELSE x

ItemLevel(it) ==
    IF it.isFeat
    THEN OrElse(LocationNumber(it.location), it.level)
    ELSE IF it.level # Undef /\ TypeOf(it.level) = "number" THEN it.level ELSE Null

\* A log that records overrides only, whatever the type of the value.
logChangeOverrideOnly(log, rule, it, value) ==
    IF rule.data.mode # S("override") THEN log
    ELSE LET path == rule.data.path.s
             entries == IF path \in DOMAIN log THEN log[path] ELSE <<>>
             entry == [mode |-> rule.data.mode, level |-> ItemLevel(it),
                       value |-> value, source |-> it.name]
         IN  (path :> Append(entries, entry)) @@ log

\* logChange(value): append {mode, level, value, source} to the entries kept for
\* the rule's path; a string is logged for override only.
logChange(log, rule, it, value) ==
    IF TypeOf(value) = "string" /\ rule.data.mode # S("override") THEN log
    ELSE LET path == rule.data.path.s
             entries == IF path \in DOMAIN log THEN log[path] ELSE <<>>
             entry == [mode |-> rule.data.mode, level |-> ItemLevel(it),
                       value |-> value, source |-> it.name]
         IN  (path :> Append(entries, entry)) @@ log

\* ---------------------------------------------------------------- apply
\* predicate.test(rollOptions): every statement of the predicate is a roll option.
PredicateTest(predicate, options) == predicate.all \subseteq options

\* RuleElementPF2e#resolveValue: a string has its placeholders resolved, a
\* missing value is 0, and an object is returned as it is, by reference.
resolveValue(value, d, bound) ==
    LET v == Coalesce(value, Num(0))
    IN  IF v.t = "string" THEN resolveInjectedProperties(v, bound)
        ELSE IF v.t \in {"object", "array"} THEN Ref(d)
        ELSE v

\* A missing current value taken for 1, the neutral element of the product.
OrZeroAsOne(current) == IF Nullish(current) THEN 1 ELSE current.n

\* The number a nullish-coalesced current value stands for: (current ?? 0).
OrZero(current) == Coalesce(current, Num(0)).n

Min(a, b) == IF a <= b THEN a ELSE b
Max(a, b) == IF a >= b THEN a ELSE b

\* The precondition of add taken for that of the other numeric modes.
NumericOnNumberOrNull(change, current) ==
    TypeOf(change) = "number"
        /\ (TypeOf(current) = "number" \/ current = Undef \/ current = Null)

\* The precondition of multiply, downgrade and upgrade.
NumericOnNumber(change, current) ==
    TypeOf(change) = "number" /\ (TypeOf(current) = "number" \/ current = Undef)

\* A numeric add is valid if the change value is a number and the current value
\* is a number or nullish.
isNumericAdd(change, current) ==
    TypeOf(change) = "number" /\ (TypeOf(current) = "number" \/ current = Undef \/ current = Null)

\* An array add that does not look at the elements.
isArrayAddAnyArray(change, current, rs) == Deref(current, rs).t = "array"

\* An array add is valid if the current value is an array and either empty or
\* consisting of all elements of the same type as the change value.
isArrayAdd(change, current, rs) ==
    LET target == Deref(current, rs)
    IN  target.t = "array" /\ \A i \in 1..Len(target.a) : TypeOf(target.a[i]) = TypeOf(change)

\* The state an apply works on and returns.
St(rs, data, log, warned) == [rules |-> rs, data |-> data, log |-> log, warnings |-> warned]

\* A failed precondition that also disables the rule.
WarnedAndIgnored(st, d) ==
    St([st.rules EXCEPT ![d].ignored = TRUE], st.data, st.log, warn(st.warnings, d, "path"))

\* A failed precondition that also empties the change log.
WarnedDropsLog(st, d) == St(st.rules, st.data, <<>>, warn(st.warnings, d, "path"))

\* return this.warn("path"): the precondition of the mode does not hold.
Warned(st, d) == St(st.rules, st.data, st.log, warn(st.warnings, d, "path"))

\* A numeric write that logs the value written and not the change.
WriteNumberLogsResult(st, d, it, newValue, change) ==
    LET rule == st.rules[d]
        w == setProperty(st.data, rule.data.path.s, Num(newValue), st.rules)
    IN  St(w.rules, w.node, logChange(st.log, rule, it, Num(newValue)), st.warnings)

\* A numeric write: setProperty(actor.data, path, newValue); logChange(change).
WriteNumber(st, d, it, newValue, change) ==
    LET rule == st.rules[d]
        w == setProperty(st.data, rule.data.path.s, Num(newValue), st.rules)
    IN  St(w.rules, w.node, logChange(st.log, rule, it, change), st.warnings)

\* current.push(change): the array grows in place, where it is stored.
PushOnto(st, d, current, change) ==
    IF current.t = "ref"
    THEN St([st.rules EXCEPT ![current.d].data.value.a = Append(@, change)],
            st.data, st.log, st.warnings)
    ELSE LET w == setProperty(st.data, st.rules[d].data.path.s,
                              Arr(Append(current.a, change)), st.rules)
         IN  St(w.rules, w.node, st.log, st.warnings)

\* An override that writes the members as they are stored.
ResolveMembersNone(object, bound) == object

\* for (const [key, value] of Object.entries(change))
\*     if (typeof value === "string") change[key] = resolveInjectedProperties(value)
ResolveMembers(object, bound) ==
    IF object.t = "array"
    THEN Arr([i \in 1..Len(object.a) |-> resolveInjectedProperties(object.a[i], bound)])
    ELSE Obj([k \in DOMAIN object.o |-> resolveInjectedProperties(object.o[k], bound)])

\* An override that does not compare the types.
ApplyOverrideUnchecked(st, d, it, change, bound) ==
    LET rule == st.rules[d]
        rs1 == IF isObject(change)
               THEN [st.rules EXCEPT ![change.d].data.value = ResolveMembers(@, bound)]
               ELSE st.rules
        w == setProperty(st.data, rule.data.path.s, change, rs1)
    IN  St(w.rules, w.node,
           IF TypeOf(change) = "string" THEN logChange(st.log, rule, it, change) ELSE st.log,
           st.warnings)

\* The override branch.
ApplyOverride(st, d, it, change, bound) ==
    LET rule == st.rules[d]
        currentValue == getProperty(st.data, rule.data.path.s, st.rules)
        rs1 == IF isObject(change)
               THEN [st.rules EXCEPT ![change.d].data.value = ResolveMembers(@, bound)]
               ELSE st.rules
        w == setProperty(st.data, rule.data.path.s, change, rs1)
    IN  IF TypeOf(change) = TypeOf(currentValue) \/ currentValue = Undef
        THEN St(w.rules, w.node,
                IF TypeOf(change) = "string" THEN logChange(st.log, rule, it, change)
                ELSE st.log,
                st.warnings)
        ELSE st

\* A switch whose default case warns.
NoBranchWarns(st, d) == Warned(st, d)

\* No case of the switch matches this.mode: nothing is done.
NoBranch(st, d) == st

\* switch (this.mode), on the rule whose path has been resolved.
ApplyMode(st, d, it, bound) ==
    LET rule == st.rules[d]
        mode == rule.data.mode
        change == resolveValue(rule.data.value, d, bound)
        current == getProperty(st.data, rule.data.path.s, st.rules)
        warned == Warned(st, d)
    IN  CASE mode = S("multiply") ->
               IF ~NumericOnNumber(change, current) THEN warned
               ELSE WriteNumber(st, d, it, OrZero(current) * change.n, change)
          [] mode = S("add") ->
               IF isNumericAdd(change, current)
               THEN WriteNumber(st, d, it, OrZero(current) + change.n, change)
               ELSE IF isArrayAdd(change, current, st.rules)
               THEN PushOnto(st, d, current, change)
               ELSE warned
          [] mode = S("downgrade") ->
               IF ~NumericOnNumber(change, current) THEN warned
               ELSE WriteNumber(st, d, it, Min(OrZero(current), change.n), change)
          [] mode = S("upgrade") ->
               IF ~NumericOnNumber(change, current) THEN warned
               ELSE WriteNumber(st, d, it, Max(OrZero(current), change.n), change)
          [] mode = S("override") -> ApplyOverride(st, d, it, change, bound)
          [] OTHER -> NoBranch(st, d)

\* An apply that does not test the predicate.
applyAELikeNoPredicate(st, d, it, options, bound) ==
    LET rule == st.rules[d]
        path == resolveInjectedProperties(rule.data.path, bound)
        st1 == [st EXCEPT !.rules[d].data.path = path]
    IN  IF HasUndefinedToken(path) THEN st1 ELSE ApplyMode(st1, d, it, bound)

\* applyAELike(): test the predicate, resolve the path and keep it, then apply
\* the change by mode.
applyAELike(st, d, it, options, bound) ==
    LET rule == st.rules[d]
        path == resolveInjectedProperties(rule.data.path, bound)
        st1 == [st EXCEPT !.rules[d].data.path = path]
    IN  IF rule.data.predicate # Undef /\ ~PredicateTest(rule.data.predicate, options) THEN st
        ELSE IF HasUndefinedToken(path) THEN st1
        ELSE ApplyMode(st1, d, it, bound)

\* ---------------------------------------------------------------- dispatch
\* The owner prepares its rules in ascending priority order, ties in declaration
\* order; a rule whose priority is NaN is ignored and comes last.
Before(rs, i, j) ==
    LET pi == rs[i].data.priority
        pj == rs[j].data.priority
    IN  IF pi = NaN \/ pj = NaN THEN (pi # NaN /\ pj = NaN) \/ (pi = pj /\ i < j)
        ELSE pi.n < pj.n \/ (pi.n = pj.n /\ i < j)

Order(rs) ==
    [k \in 1..Len(rs) |->
        CHOOSE i \in 1..Len(rs) : Cardinality({j \in 1..Len(rs) : Before(rs, j, i)}) = k - 1]

\* ---------------------------------------------------------------- inputs
Source(mode, path, value, priority, ph, predicate) ==
    [mode |-> mode, path |-> path, value |-> value, priority |-> priority,
     phase |-> ph, predicate |-> predicate]

Ints == (0 - MaxInt)..MaxInt
Numbers == {Num(n) : n \in Ints}

ChangeModes == {S(CHANGE_MODES[i]) : i \in 1..Len(CHANGE_MODES)}
\* A mode that is no change mode, and a mode that is no string.
OtherModes == {S("bogus"), Num(7)}

ObjectValue == Obj(("a" :> S(Placeholder)) @@ ("b" :> Num(1)))
RuleValues ==
    Numbers \cup {S("x"), S(Placeholder), Bool(TRUE), ObjectValue, Arr(<<Num(1)>>), Undef}

Phases == {S("applyAEs"), S("beforeDerived"), S("afterDerived")}
TagPredicate == [all |-> {"t"}]

\* Every mode against every value, on the hit points.
ModeSources ==
    {Source(m, Str(HpPath), v, Undef, Undef, Undef) : m \in ChangeModes \cup OtherModes,
                                                     v \in RuleValues}
\* Paths: with a placeholder, beneath nothing of the tree, on an unset property,
\* and no string at all.
PathSources ==
    {Source(m, p, v, Undef, Undef, Undef) :
        m \in {S("add"), S("override")},
        p \in {Str(InjectedPath), Str(MissingPath), Str(FlagsPath), Undef},
        v \in {Num(1), S("x"), Undef}}
\* Explicit priorities.
PrioritySources ==
    {Source(m, Str(HpPath), v, Num(pr), Undef, Undef) :
        m \in {S("multiply"), S("add")} \cup OtherModes, pr \in {5, 25}, v \in {Num(2), Undef}}
\* Explicit phases.
PhaseSources ==
    {Source(m, Str(HpPath), Num(2), Undef, ph, Undef) :
        m \in {S("multiply"), S("add"), S("bogus")}, ph \in Phases}
\* Predicates.
PredicateSources ==
    {Source(m, p, v, Undef, Undef, TagPredicate) :
        m \in {S("multiply"), S("add"), S("override")},
        p \in {Str(HpPath), Str(InjectedPath)},
        v \in {Num(2), S("x")}}

Sources == ModeSources \cup PathSources \cup PrioritySources \cup PhaseSources
             \cup PredicateSources

\* Rules that stack on one property: a multiply and an add of every number.
StackSources ==
    {Source(m, Str(HpPath), v, Undef, Undef, Undef) : m \in {S("multiply"), S("add")},
                                                     v \in Numbers}

\* Rules whose apply can end without a write: on a false predicate, on an
\* unresolved path, on a failed precondition, on an override of another type.
FailingSources ==
    {Source(S("add"), Str(HpPath), Num(2), Undef, Undef, TagPredicate),
     Source(S("add"), Str(InjectedPath), Num(1), Undef, Undef, Undef),
     Source(S("multiply"), Str(HpPath), S("x"), Undef, Undef, Undef),
     Source(S("override"), Str(HpPath), S("x"), Undef, Undef, Undef)}

\* The rules of one item: one rule of any kind, two stacking rules, or a
\* stacking rule next to one that can fail.
RuleLists ==
    {<<a>> : a \in Sources}
        \cup {<<a, b>> : a \in StackSources, b \in StackSources}
        \cup {<<a, b>> : a \in FailingSources, b \in StackSources}
        \cup {<<a, b>> : a \in StackSources, b \in FailingSources}

Location(digits) == [t |-> "string", suffix |-> digits]
Items ==
    {[name |-> "Toughness", isFeat |-> TRUE, location |-> Location(<<3>>), level |-> Num(1)],
     [name |-> "Ring", isFeat |-> FALSE, location |-> Undef, level |-> Num(2)]}

\* What the owner's source data holds at data.attributes.hp.
Currents ==
    Numbers \cup {Undef, Null, S("x"), Bool(TRUE), Arr(<<>>), Arr(<<Num(1)>>),
                  Arr(<<S("x")>>), Obj("a" :> Num(1))}
OptionSets == {{}, {"t"}}
Bindings == {Undef, S("hp")}

\* The owner when a cycle starts: every stored value with the tag set and the
\* placeholder bound, and every tag set and binding with a number and an array.
Env(hp, options, bound) == [hp |-> hp, options |-> options, binding |-> bound]
Envs ==
    {Env(hp, {"t"}, S("hp")) : hp \in Currents}
        \cup {Env(hp, options, bound) : hp \in {Num(1), Arr(<<>>)}, options \in OptionSets,
                                        bound \in Bindings}

\* No cycle has been kept.
NoCycle == [t |-> "none"]

\* ---------------------------------------------------------------- actions
Init ==
    /\ ruleSources \in RuleLists
    /\ item \in Items
    /\ rules = <<>>
    /\ sourceHp = InitialHp
    /\ actorData = InitialData
    /\ autoChanges = <<>>
    /\ warnings = <<>>
    /\ rollOptions = {}
    /\ binding = Undef
    /\ phase = "construct"
    /\ pos = 1
    /\ applyCount = [d \in 1..Len(ruleSources) |-> 0]
    /\ everWarned = {}
    /\ previous = NoCycle

\* The item is instantiated for its owner: its next rule is constructed.
Construct ==
    /\ phase = "construct"
    /\ LET d == Len(rules) + 1
           c == Constructed(ruleSources[d], d, actorData, rules, warnings)
       IN  /\ rules' = Append(rules, c.rule)
           /\ warnings' = c.warnings
           /\ phase' = IF d = Len(ruleSources) THEN "constructed" ELSE "construct"
    /\ UNCHANGED <<ruleSources, item, sourceHp, actorData, autoChanges, rollOptions,
                   binding, pos, applyCount, everWarned, previous>>

\* A preparation cycle starts, the first one or the next one: the data tree is
\* rebuilt from the owner's source data and the change log starts empty.
StartCycle ==
    /\ phase \in {"constructed", "prepared"}
    /\ \E env \in Envs :
          /\ sourceHp' = env.hp
          /\ rollOptions' = env.options
          /\ binding' = env.binding
    /\ previous' = previous
    /\ actorData' = BaseData(sourceHp')
    /\ autoChanges' = <<>>
    /\ warnings' = <<>>
    /\ phase' = "applyAEs"
    /\ pos' = 1
    /\ applyCount' = [d \in 1..Len(rules) |-> 0]
    /\ UNCHANGED <<ruleSources, rules, item, everWarned>>

\* The rule the dispatcher calls next.
Current == Order(rules)[pos]

\* An entry point that does not look at the rule's phase.
EntryPointAnyPhase(d, name) ==
    LET st == St(rules, actorData, autoChanges, warnings)
        called == ~rules[d].ignored
        out == IF called THEN applyAELike(st, d, item, rollOptions, binding) ELSE st
    IN  /\ applyCount' = [applyCount EXCEPT ![d] = IF called THEN @ + 1 ELSE @]
        /\ everWarned' = IF out.warnings # warnings THEN everWarned \cup {d} ELSE everWarned
        /\ rules' = out.rules
        /\ actorData' = out.data
        /\ autoChanges' = out.log
        /\ warnings' = out.warnings

\* An entry point of rule d for the phase named: the apply runs if the rule is
\* not ignored and the phase is the rule's.
EntryPoint(d, name) ==
    LET st == St(rules, actorData, autoChanges, warnings)
        called == ~rules[d].ignored /\ rules[d].data.phase = S(name)
        out == IF called THEN applyAELike(st, d, item, rollOptions, binding) ELSE st
    IN  /\ applyCount' = [applyCount EXCEPT ![d] = IF called THEN @ + 1 ELSE @]
        /\ everWarned' = IF out.warnings # warnings THEN everWarned \cup {d} ELSE everWarned
        /\ rules' = out.rules
        /\ actorData' = out.data
        /\ autoChanges' = out.log
        /\ warnings' = out.warnings

Advance(next) ==
    /\ pos' = IF pos = Len(rules) THEN 1 ELSE pos + 1
    /\ phase' = IF pos = Len(rules) THEN next ELSE phase
    /\ UNCHANGED <<ruleSources, item, sourceHp, rollOptions, binding, previous>>

onApplyActiveEffects ==
    /\ phase = "applyAEs"
    /\ EntryPoint(Current, "applyAEs")
    /\ Advance("beforeDerived")

beforePrepareData ==
    /\ phase = "beforeDerived"
    /\ EntryPoint(Current, "beforeDerived")
    /\ Advance("afterDerived")

afterPrepareData ==
    /\ phase = "afterDerived"
    /\ EntryPoint(Current, "afterDerived")
    /\ Advance("prepared")

Next ==
    \/ Construct
    \/ StartCycle
    \/ onApplyActiveEffects
    \/ beforePrepareData
    \/ afterPrepareData

Spec == Init /\ [][Next]_vars

TypeOK ==
    /\ phase \in {"construct", "constructed", "applyAEs", "beforeDerived", "afterDerived",
                  "prepared"}
    /\ pos \in 1..2

\* ---------------------------------------------------------------- properties
\* What the claims speak of, in the state before an entry-point step.
EntryPhases == {"applyAEs", "beforeDerived", "afterDerived"}
InEntry == phase \in EntryPhases
\* The entry point about to run calls applyAELike.
Called == InEntry /\ ~rules[Current].ignored /\ rules[Current].data.phase = S(phase)
PredicatePasses ==
    rules[Current].data.predicate = Undef \/ rules[Current].data.predicate.all \subseteq rollOptions
ResolvedPath == resolveInjectedProperties(rules[Current].data.path, binding)
\* The apply about to run reaches its mode switch.
Reaches == Called /\ PredicatePasses /\ ~HasUndefinedToken(ResolvedPath)
Change == resolveValue(rules[Current].data.value, Current, binding)
Before_ == getProperty(actorData, ResolvedPath.s, rules)
After_ == getProperty(actorData', ResolvedPath.s, rules')
Hp == getProperty(actorData, HpPath, rules)
ModeIs(name) == rules[Current].data.mode = S(name)
AsNumber(c) == IF c.t = "number" THEN c.n ELSE 0

\* C1: an applied rule with a numeric value v sets the field at the resolved path
\* to c*v (multiply), min(c, v) (downgrade), max(c, v) (upgrade) when the current
\* value c is a number or undefined, and to c+v (add) when c is a number,
\* undefined or null, a missing c counting as 0.
C1_NumericModes ==
    [][(Reaches /\ Change.t = "number") =>
        LET c == Before_
            c0 == AsNumber(c)
            v == Change.n
        IN  /\ (ModeIs("multiply") /\ c.t \in {"number", "undefined"}) => After_ = Num(c0 * v)
            /\ (ModeIs("downgrade") /\ c.t \in {"number", "undefined"})
                  => After_ = Num(IF c0 <= v THEN c0 ELSE v)
            /\ (ModeIs("upgrade") /\ c.t \in {"number", "undefined"})
                  => After_ = Num(IF c0 >= v THEN c0 ELSE v)
            /\ (ModeIs("add") /\ c.t \in {"number", "undefined", "null"})
                  => After_ = Num(c0 + v)]_vars

\* A multiply by 2 has run on an unset property and has written 0.
C1_Witness ==
    /\ phase = "beforeDerived"
    /\ Len(rules) = 1
    /\ rules[1].data.mode = S("multiply")
    /\ rules[1].data.value = Num(2)
    /\ sourceHp = Undef
    /\ Hp = Num(0)

\* C2: a multiply by m and an add of a, both of default priority and phase, on
\* the same path with starting value c leave (c*m)+a once the phase is over,
\* whichever of the two is declared first.
C2_PriorityOrder ==
    \A i, j \in 1..Len(rules) :
        (/\ phase \in {"beforeDerived", "afterDerived", "prepared"}
         /\ Len(rules) = 2
         /\ sourceHp.t = "number"
         /\ \E m, a \in Ints :
               /\ ruleSources[i] = Source(S("multiply"), Str(HpPath), Num(m), Undef, Undef, Undef)
               /\ ruleSources[j] = Source(S("add"), Str(HpPath), Num(a), Undef, Undef, Undef))
        => Hp = Num(sourceHp.n * ruleSources[i].value.n + ruleSources[j].value.n)

\* The add of 1 is declared before the multiply by 2, and 2 has become 5, not 6.
C2_Witness ==
    /\ phase = "beforeDerived"
    /\ ruleSources = <<Source(S("add"), Str(HpPath), Num(1), Undef, Undef, Undef),
                       Source(S("multiply"), Str(HpPath), Num(2), Undef, Undef, Undef)>>
    /\ sourceHp = Num(2)
    /\ Hp = Num(5)

\* C3: an entry point changes neither the tree nor the change log unless the rule
\* is not ignored and its phase is the entry point's; an absent phase is
\* applyAEs; and no rule runs its apply more than once in a cycle.
C3_PhaseIsolation ==
    [][/\ (InEntry /\ (rules[Current].ignored \/ rules[Current].data.phase # S(phase)))
            => (actorData' = actorData /\ autoChanges' = autoChanges)
       /\ (phase = "construct" /\ ruleSources[Len(rules) + 1].phase = Undef)
            => rules'[Len(rules) + 1].data.phase = S("applyAEs")
       /\ \A d \in 1..Len(rules') : applyCount'[d] <= 1]_vars

\* A rule of phase afterDerived has been through the two earlier entry points,
\* and the tree and the log are as the cycle started them.
C3_Witness ==
    /\ phase = "afterDerived"
    /\ Len(rules) = 1
    /\ rules[1].data.phase = S("afterDerived")
    /\ ~rules[1].ignored
    /\ actorData = BaseData(sourceHp)
    /\ autoChanges = <<>>
    /\ applyCount[1] = 0

\* ---------------------------------------------------------------- construction
\* The rule was given no priority and a mode that is no change mode.
UnrecognizedNoPriority(d) ==
    ruleSources[d].priority = Undef /\ ruleSources[d].mode \notin ChangeModes
\* Neither the path, nor the path less its last segment, nor the path less its
\* last two segments is a defined value of the tree the rule was constructed on.
ImplausiblePath(d) ==
    /\ ruleSources[d].path.t = "string"
    /\ \A cand \in {ruleSources[d].path.s, DropLastSegment(ruleSources[d].path.s),
                    DropLastTwoSegments(ruleSources[d].path.s)} :
          getProperty(InitialData, cand, <<>>) = Undef

\* C4: a rule constructed with a string path of which neither the whole, nor the
\* whole less one segment, nor the whole less two segments resolves to a defined
\* value warns about "path", is ignored, and never writes to the tree.
C4_ImplausiblePathIgnored ==
    [][/\ \A d \in 1..Len(rules') :
            (phase = "construct" /\ d = Len(rules') /\ rules'[d].data.priority # NaN
                /\ ImplausiblePath(d))
            => (rules'[d].ignored
                /\ \E k \in 1..Len(warnings') : warnings'[k] = [rule |-> d, property |-> "path"])
       /\ (InEntry /\ rules[Current].data.priority # NaN /\ ImplausiblePath(Current))
            => actorData' = actorData]_vars

\* C5: a rule constructed with an unrecognized (or non-string) mode and no
\* priority has priority NaN, is ignored, has no warning emitted for it, and
\* never changes the tree or the change log.
C5_UnrecognizedModeInert ==
    [][/\ \A d \in 1..Len(rules') :
            UnrecognizedNoPriority(d)
            => (/\ rules'[d].data.priority = NaN
                /\ rules'[d].ignored
                /\ \A k \in 1..Len(warnings') : warnings'[k].rule # d)
       /\ (InEntry /\ UnrecognizedNoPriority(Current))
            => (actorData' = actorData /\ autoChanges' = autoChanges)]_vars

\* A rule whose mode is no string and whose value is of no supported type has
\* been through a whole cycle: nothing was warned, written or logged.
C5_Witness ==
    /\ phase = "prepared"
    /\ Len(rules) = 1
    /\ ruleSources[1].mode = Num(7)
    /\ ruleSources[1].priority = Undef
    /\ ruleSources[1].value = Undef
    /\ rules[1].ignored
    /\ rules[1].data.priority = NaN
    /\ warnings = <<>>
    /\ autoChanges = <<>>
    /\ actorData = BaseData(sourceHp)

\* ---------------------------------------------------------------- re-evaluation
\* C6: no entry point changes a constructed rule's stored path, value, mode,
\* priority or phase.
C6_DirectiveImmutable ==
    [][InEntry => \A d \in 1..Len(rules) : rules'[d].data = rules[d].data]_vars

\* C7: while the placeholder of the rule's path is unbound, the apply writes,
\* logs and warns nothing; once it is bound, the rule applies its change: an add
\* of a number to a number writes the sum.
C7_UnresolvedIsTransient ==
    [][(Called /\ PredicatePasses /\ ruleSources[Current].path = Str(InjectedPath))
        => IF binding = Undef
           THEN actorData' = actorData /\ autoChanges' = autoChanges /\ warnings' = warnings
           ELSE (ModeIs("add") /\ Change.t = "number" /\ Hp.t = "number")
                => getProperty(actorData', HpPath, rules') = Num(Hp.n + Change.n)]_vars

\* C8: the ignored flag of a constructed rule never changes; and a rule whose
\* apply has warned before writes when its precondition holds.
C8_IgnoredFixed ==
    [][/\ \A d \in 1..Len(rules) : rules'[d].ignored = rules[d].ignored
       /\ (Reaches /\ Current \in everWarned /\ ModeIs("multiply") /\ Change.t = "number"
              /\ Before_.t = "number")
            => (After_ = Num(Before_.n * Change.n) /\ ResolvedPath.s \in DOMAIN autoChanges')]_vars

\* A multiply that warned in an earlier cycle has written and logged in this one.
C8_Witness ==
    /\ phase = "beforeDerived"
    /\ Len(rules) = 1
    /\ rules[1].data.mode = S("multiply")
    /\ ~rules[1].ignored
    /\ 1 \in everWarned
    /\ warnings = <<>>
    /\ sourceHp = Num(2)
    /\ rules[1].data.value = Num(2)
    /\ Hp = Num(4)
    /\ HpPath \in DOMAIN autoChanges

\* ---------------------------------------------------------------- change log
EntriesAt(log, path) == IF path \in DOMAIN log THEN log[path] ELSE <<>>
IsPrefix(a, b) == Len(a) <= Len(b) /\ SubSeq(b, 1, Len(a)) = a
\* The apply about to run performs the numeric write of its mode.
ArithmeticWrite ==
    /\ Reaches
    /\ Change.t = "number"
    /\ \/ (ModeIs("multiply") \/ ModeIs("downgrade") \/ ModeIs("upgrade"))
             /\ Before_.t \in {"number", "undefined"}
       \/ ModeIs("add") /\ Before_.t \in {"number", "undefined", "null"}
NumericOverride ==
    Reaches /\ Change.t = "number" /\ ModeIs("override") /\ Before_.t \in {"number", "undefined"}
\* The step appends one entry to the log of the resolved path.
LogAppended ==
    Len(EntriesAt(autoChanges', ResolvedPath.s)) = Len(EntriesAt(autoChanges, ResolvedPath.s)) + 1

\* C9 as claimed: every apply that writes a number appends a log entry for the
\* resolved path, in every mode, override included.
C9_NumericAlwaysLogged ==
    [][(ArithmeticWrite \/ NumericOverride) => LogAppended]_vars

\* C9 amended: every apply of multiply, add, downgrade or upgrade that writes a
\* number appends a log entry for the resolved path; an override that writes a
\* number appends none.
C9_NumericLoggedExceptOverride ==
    [][/\ ArithmeticWrite => LogAppended
       /\ NumericOverride => (After_ = Change /\ autoChanges' = autoChanges)]_vars

\* An override has replaced 1 by 2 and the change log is empty.
C9_Witness ==
    /\ phase = "beforeDerived"
    /\ Len(rules) = 1
    /\ rules[1].data.mode = S("override")
    /\ rules[1].data.value = Num(2)
    /\ sourceHp = Num(1)
    /\ Hp = Num(2)
    /\ autoChanges = <<>>

\* The apply about to run writes nothing: it is not called, its predicate is
\* false, its path is unresolved, its precondition fails or its override is of
\* another type than the current value.
NoWrite ==
    \/ ~Called
    \/ ~PredicatePasses
    \/ HasUndefinedToken(ResolvedPath)
    \/ /\ ModeIs("multiply") \/ ModeIs("downgrade") \/ ModeIs("upgrade")
       /\ ~(Change.t = "number" /\ Before_.t \in {"number", "undefined"})
    \/ /\ ModeIs("add")
       /\ ~(Change.t = "number" /\ Before_.t \in {"number", "undefined", "null"})
       /\ ~(Deref(Before_, rules).t = "array")
    \/ ModeIs("override") /\ Before_ # Undef /\ TypeOf(Before_) # TypeOf(Change)

\* C10: an entry point only ever appends to the change log; a numeric write by
\* multiply, add, downgrade or upgrade appends exactly one entry, last in the
\* list of the resolved path, holding the rule's mode, the change value and the
\* item's name; an apply that writes nothing appends nothing.
C10_LogAppendOnly ==
    [][InEntry =>
        /\ \A p \in DOMAIN autoChanges :
              p \in DOMAIN autoChanges' /\ IsPrefix(autoChanges[p], autoChanges'[p])
        /\ ArithmeticWrite =>
              LET p == ResolvedPath.s
                  after == EntriesAt(autoChanges', p)
                  entry == after[Len(after)]
              IN  /\ Len(after) = Len(EntriesAt(autoChanges, p)) + 1
                  /\ entry.mode = rules[Current].data.mode
                  /\ entry.value = Change
                  /\ entry.source = item.name
                  /\ entry.level.t \in {"number", "null"}
                  /\ DOMAIN autoChanges' = DOMAIN autoChanges \cup {p}
                  /\ \A q \in DOMAIN autoChanges \ {p} : autoChanges'[q] = autoChanges[q]
        /\ NoWrite => autoChanges' = autoChanges]_vars

\* A multiply by 2 and an add of 2 have turned 1 into 4; the log holds the two
\* changes in the order applied, the add last with the value 2.
C10_Witness ==
    /\ phase = "beforeDerived"
    /\ sourceHp = Num(1)
    /\ Hp = Num(4)
    /\ HpPath \in DOMAIN autoChanges
    /\ Len(autoChanges[HpPath]) = 2
    /\ autoChanges[HpPath][1].mode = S("multiply")
    /\ autoChanges[HpPath][2].mode = S("add")
    /\ autoChanges[HpPath][2].value = Num(2)
    /\ autoChanges[HpPath][2].source = item.name

\* ---------------------------------------------------------------- preconditions
OnePathWarning == warnings' = Append(warnings, [rule |-> Current, property |-> "path"])
TreeAndLogUnchanged == actorData' = actorData /\ autoChanges' = autoChanges

\* C11: a multiply, downgrade or upgrade whose value is no number, or whose
\* current value is neither a number nor undefined, emits exactly one "path"
\* warning and leaves the tree and the change log unchanged.
C11_NumericPreconditionWarns ==
    [][(/\ Reaches
        /\ ModeIs("multiply") \/ ModeIs("downgrade") \/ ModeIs("upgrade")
        /\ Change.t # "number" \/ Before_.t \notin {"number", "undefined"})
        => (OnePathWarning /\ TreeAndLogUnchanged)]_vars

\* A multiply by 2 has met null: one warning, and the tree is as the cycle
\* started it.
C11_Witness ==
    /\ phase = "beforeDerived"
    /\ Len(rules) = 1
    /\ rules[1].data.mode = S("multiply")
    /\ rules[1].data.value = Num(2)
    /\ sourceHp = Null
    /\ warnings = <<[rule |-> 1, property |-> "path"]>>
    /\ actorData = BaseData(Null)
    /\ autoChanges = <<>>

\* C12: an add that is no numeric add appends its value as the last element of
\* the current array when that array is empty or holds only elements of the
\* value's type, without a log entry or a warning; in every other case it leaves
\* the tree and the log unchanged and emits one "path" warning.
C12_ArrayAdd ==
    [][(/\ Reaches
        /\ ModeIs("add")
        /\ ~(Change.t = "number" /\ Before_.t \in {"number", "undefined", "null"}))
        => LET array == Deref(Before_, rules)
           IN  IF array.t = "array"
                    /\ \A i \in 1..Len(array.a) : TypeOf(array.a[i]) = TypeOf(Change)
               THEN /\ Deref(After_, rules') = Arr(Append(array.a, Change))
                    /\ autoChanges' = autoChanges
                    /\ warnings' = warnings
               ELSE OnePathWarning /\ TreeAndLogUnchanged]_vars

\* An add of the string "x" has grown the array ["x"] to ["x", "x"], silently.
C12_Witness ==
    /\ phase = "beforeDerived"
    /\ Len(rules) = 1
    /\ rules[1].data.mode = S("add")
    /\ rules[1].data.value = S("x")
    /\ sourceHp = Arr(<<S("x")>>)
    /\ Hp = Arr(<<S("x"), S("x")>>)
    /\ warnings = <<>>
    /\ autoChanges = <<>>

\* C13: an override whose current value is defined and of another type than the
\* value writes nothing, logs nothing and warns of nothing.
C13_OverrideTypeMismatch ==
    [][(Reaches /\ ModeIs("override") /\ Before_ # Undef /\ TypeOf(Before_) # TypeOf(Change))
        => (TreeAndLogUnchanged /\ warnings' = warnings)]_vars

\* An override by an object has met the string "x" and has left it.
C13_Witness ==
    /\ phase = "beforeDerived"
    /\ Len(rules) = 1
    /\ rules[1].data.mode = S("override")
    /\ rules[1].data.value.t = "object"
    /\ applyCount[1] = 1
    /\ sourceHp = S("x")
    /\ actorData = BaseData(S("x"))
    /\ warnings = <<>>
    /\ autoChanges = <<>>

\* C14: an override whose current value is undefined or of the value's type
\* replaces the field by the value; of an object value, the object written has
\* each string member replaced by its placeholder resolution and each other
\* member as the rule holds it.
C14_OverrideWrites ==
    [][(Reaches /\ ModeIs("override") /\ (Before_ = Undef \/ TypeOf(Before_) = TypeOf(Change)))
        => LET stored == rules[Current].data.value
               written == Deref(After_, rules')
           IN  CASE stored.t = "object" ->
                      /\ written.t = "object"
                      /\ DOMAIN written.o = DOMAIN stored.o
                      /\ \A k \in DOMAIN stored.o :
                            written.o[k] = IF stored.o[k].t = "string"
                                           THEN resolveInjectedProperties(stored.o[k], binding)
                                           ELSE stored.o[k]
                 [] stored.t = "array" ->
                      /\ written.t = "array"
                      /\ Len(written.a) = Len(stored.a)
                      /\ \A i \in 1..Len(stored.a) :
                            written.a[i] = resolveInjectedProperties(stored.a[i], binding)
                 [] OTHER -> After_ = Change]_vars

\* An override by {a: <placeholder>, b: 1} has been written on an unset property
\* with the placeholder bound to "hp": the property holds {a: "hp", b: 1}.
C14_Witness ==
    /\ phase = "beforeDerived"
    /\ Len(rules) = 1
    /\ ruleSources[1].mode = S("override")
    /\ ruleSources[1].value = ObjectValue
    /\ sourceHp = Undef
    /\ binding = S("hp")
    /\ Deref(Hp, rules) = Obj(("a" :> S("hp")) @@ ("b" :> Num(1)))

\* C15: an apply whose predicate tests false against the owner's tags leaves the
\* tree and the change log unchanged and warns of nothing; an apply without a
\* predicate goes on whatever the tags: its numeric write is made and logged.
C15_PredicateFalseSkips ==
    [][/\ (Called /\ rules[Current].data.predicate # Undef
              /\ ~(rules[Current].data.predicate.all \subseteq rollOptions))
            => (TreeAndLogUnchanged /\ warnings' = warnings)
       /\ (Called /\ rules[Current].data.predicate = Undef /\ ArithmeticWrite) => LogAppended]_vars

\* A rule with a predicate has been applied to an owner without the tag: the
\* tree is as the cycle started it, and nothing was logged or warned.
C15_Witness ==
    /\ phase = "beforeDerived"
    /\ Len(rules) = 1
    /\ rules[1].data.predicate = TagPredicate
    /\ rules[1].data.mode = S("add")
    /\ rules[1].data.value = Num(2)
    /\ rules[1].data.path = Str(HpPath)
    /\ applyCount[1] = 1
    /\ rollOptions = {}
    /\ sourceHp = Num(1)
    /\ actorData = BaseData(Num(1))
    /\ autoChanges = <<>>
    /\ warnings = <<>>

\* The warnings a step emits.
Emitted == SubSeq(warnings', Len(warnings) + 1, Len(warnings'))

\* C16: constructing a rule whose priority is not NaN runs both checks: a value
\* that is no number, string, boolean or object is warned about as "value" and
\* ignores the rule; a rule whose path and value both fail is warned about as
\* "path" and as "value"; and the rule is ignored exactly when a check failed.
C16_BothChecksRun ==
    [][(phase = "construct" /\ rules'[Len(rules) + 1].data.priority # NaN)
        => LET d == Len(rules) + 1
               src == ruleSources[d]
               badValue == TypeOf(src.value) \notin {"number", "string", "boolean", "object"}
               pathWarning == [rule |-> d, property |-> "path"]
               valueWarning == [rule |-> d, property |-> "value"]
           IN  /\ badValue => (Includes(Emitted, valueWarning) /\ rules'[d].ignored)
               /\ (badValue /\ src.path.t # "string") => Emitted = <<pathWarning, valueWarning>>
               /\ rules'[d].ignored
                     <=> (Includes(Emitted, pathWarning) \/ Includes(Emitted, valueWarning))]_vars

\* A rule without a path and without a value has been constructed: both
\* warnings were emitted and the rule is ignored.
C16_Witness ==
    /\ phase = "constructed"
    /\ Len(rules) = 1
    /\ ruleSources[1].path = Undef
    /\ ruleSources[1].value = Undef
    /\ rules[1].data.priority = Num(20)
    /\ rules[1].ignored
    /\ warnings = <<[rule |-> 1, property |-> "path"], [rule |-> 1, property |-> "value"]>>

\* The rule was given a priority, a mode that is no change mode, a string path
\* and a value of a supported type.
ExplicitUnrecognized(d) ==
    /\ ruleSources[d].priority.t = "number"
    /\ ruleSources[d].mode \notin ChangeModes
    /\ ruleSources[d].path.t = "string"
    /\ TypeOf(ruleSources[d].value) \in {"number", "string", "boolean", "object"}

\* C19: a rule constructed with an explicit priority, an unrecognized mode, a
\* string path and a value of a supported type is not ignored, and its applies
\* change neither the tree nor the change log and warn of nothing.
C19_UnrecognizedModeApplies ==
    [][/\ \A d \in 1..Len(rules') : ExplicitUnrecognized(d) => ~rules'[d].ignored
       /\ (InEntry /\ ExplicitUnrecognized(Current))
            => (TreeAndLogUnchanged /\ warnings' = warnings)]_vars

\* A rule of mode "bogus" and priority 5 has run its apply and changed nothing.
C19_Witness ==
    /\ phase = "beforeDerived"
    /\ Len(rules) = 1
    /\ ruleSources[1].mode = S("bogus")
    /\ ruleSources[1].priority = Num(5)
    /\ ~rules[1].ignored
    /\ applyCount[1] = 1
    /\ actorData = BaseData(sourceHp)
    /\ autoChanges = <<>>
    /\ warnings = <<>>

\* The apply of rule d on the tree given ends in a failure: its predicate is
\* false, its path is unresolved, the precondition of its mode does not hold, or
\* it overrides a value of another type.
FailsOn(d, data) ==
    LET r == rules[d].data
        path == resolveInjectedProperties(r.path, binding)
        current == getProperty(data, path.s, rules)
        change == resolveValue(r.value, d, binding)
        array == Deref(current, rules)
    IN  \/ r.predicate # Undef /\ ~(r.predicate.all \subseteq rollOptions)
        \/ HasUndefinedToken(path)
        \/ /\ r.mode \in {S("multiply"), S("downgrade"), S("upgrade")}
           /\ change.t # "number" \/ current.t \notin {"number", "undefined"}
        \/ /\ r.mode = S("add")
           /\ ~(change.t = "number" /\ current.t \in {"number", "undefined", "null"})
           /\ ~(array.t = "array" /\ \A i \in 1..Len(array.a) : TypeOf(array.a[i]) = TypeOf(change))
        \/ r.mode = S("override") /\ current # Undef /\ TypeOf(current) # TypeOf(change)

\* What rule d produces when it is the only rule applied in the cycle.
Alone(d) ==
    applyAELike(St(rules, BaseData(sourceHp), <<>>, <<>>), d, item, rollOptions, binding)

\* C17: in a cycle of two rules that are not ignored, when the apply of one ends
\* in a failure, the other one still runs its apply, and the tree and the change
\* log of the cycle are those the other rule produces alone.
C17_FailureContained ==
    [][(/\ phase = "applyAEs"
        /\ Len(rules) = 2
        /\ pos = 2
        /\ \A d \in 1..2 : ~rules[d].ignored /\ rules[d].data.phase = S("applyAEs"))
        => LET first == Order(rules)[1]
               second == Order(rules)[2]
           IN  /\ FailsOn(first, BaseData(sourceHp))
                    => /\ applyCount'[second] = 1
                       /\ actorData' = Alone(second).data
                       /\ autoChanges' = Alone(second).log
               /\ FailsOn(second, actorData)
                    => /\ applyCount[first] = 1
                       /\ applyCount'[second] = 1
                       /\ actorData' = Alone(first).data
                       /\ autoChanges' = Alone(first).log]_vars

\* A multiply by "x" has warned and an add of 2 has run in the same cycle on a
\* property holding 1: the property holds 3 and the log has the add's entry.
C17_Witness ==
    /\ phase = "beforeDerived"
    /\ Len(rules) = 2
    /\ rules[1].data.mode = S("multiply")
    /\ rules[1].data.value = S("x")
    /\ rules[2].data.mode = S("add")
    /\ rules[2].data.value = Num(2)
    /\ sourceHp = Num(1)
    /\ warnings = <<[rule |-> 1, property |-> "path"]>>
    /\ applyCount = <<1, 1>>
    /\ Hp = Num(3)
    /\ Len(EntriesAt(autoChanges, HpPath)) = 1
    /\ autoChanges[HpPath][1].mode = S("add")

\* ---------------------------------------------------------------- levels
\* Items by what logChange reads of them: feats with a location ending in "-0",
\* "-3" or "-03", with a location without digits and without a location, and
\* other items with a numeric level, without a level and with a level that is
\* no number.
LevelItems ==
    {[name |-> "Zero", isFeat |-> TRUE, location |-> Location(<<0>>), level |-> Num(2)],
     [name |-> "Three", isFeat |-> TRUE, location |-> Location(<<3>>), level |-> Num(1)],
     [name |-> "ZeroThree", isFeat |-> TRUE, location |-> Location(<<0, 3>>), level |-> Num(1)],
     [name |-> "Plain", isFeat |-> TRUE, location |-> Location(<<>>), level |-> Num(1)],
     [name |-> "Nowhere", isFeat |-> TRUE, location |-> Null, level |-> Num(1)],
     [name |-> "Ring", isFeat |-> FALSE, location |-> Undef, level |-> Num(2)],
     [name |-> "Note", isFeat |-> FALSE, location |-> Undef, level |-> Undef],
     [name |-> "Odd", isFeat |-> FALSE, location |-> Undef, level |-> S("x")]}

\* One stacking rule on an item of any of these kinds.
InitLevel ==
    /\ ruleSources \in {<<a>> : a \in StackSources}
    /\ item \in LevelItems
    /\ rules = <<>>
    /\ sourceHp = InitialHp
    /\ actorData = InitialData
    /\ autoChanges = <<>>
    /\ warnings = <<>>
    /\ rollOptions = {}
    /\ binding = Undef
    /\ phase = "construct"
    /\ pos = 1
    /\ applyCount = [d \in 1..Len(ruleSources) |-> 0]
    /\ everWarned = {}
    /\ previous = NoCycle

SpecLevel == InitLevel /\ [][Next]_vars

\* The level the item gives: the number of the digits its location ends in, for
\* a feat with such a location; else its level if that is a number; else null.
LevelOf(it) ==
    IF it.isFeat /\ it.location \notin {Undef, Null} /\ it.location.suffix # <<>>
    THEN Num(DigitsValue(it.location.suffix))
    ELSE IF TypeOf(it.level) = "number" THEN it.level ELSE Null

\* C20: every entry of the change log records the level the item gives: for a
\* feat whose location ends in -<digits> the number of those digits, "0"
\* included, else the item's numeric level, and null when it has neither.
C20_LevelFromItem ==
    \A path \in DOMAIN autoChanges :
        \A i \in 1..Len(autoChanges[path]) : autoChanges[path][i].level = LevelOf(item)

\* ---------------------------------------------------------------- repeated cycles
FlagsCountPath == <<"data", "flags", "b">>

\* An override by an object or by an array, with a rule of higher priority that
\* adds beneath or onto what the override wrote; and rules that hold no object.
RepeatLists ==
    {<<Source(S("override"), Str(FlagsPath), ObjectValue, Undef, Undef, Undef),
       Source(S("add"), Str(FlagsCountPath), Num(1), Num(60), Undef, Undef)>>,
     <<Source(S("override"), Str(FlagsPath), Arr(<<Num(1)>>), Undef, Undef, Undef),
       Source(S("add"), Str(FlagsPath), Num(2), Num(60), Undef, Undef)>>}
        \cup {<<a>> : a \in StackSources \cup FailingSources}

InitRepeat ==
    /\ ruleSources \in RepeatLists
    /\ item \in Items
    /\ rules = <<>>
    /\ sourceHp = InitialHp
    /\ actorData = InitialData
    /\ autoChanges = <<>>
    /\ warnings = <<>>
    /\ rollOptions = {}
    /\ binding = Undef
    /\ phase = "construct"
    /\ pos = 1
    /\ applyCount = [d \in 1..Len(ruleSources) |-> 0]
    /\ everWarned = {}
    /\ previous = NoCycle

\* The first preparation cycle of the owner.
FirstCycle == phase = "constructed" /\ StartCycle

\* The owner's data is prepared again, nothing of the owner having changed: the
\* tree is rebuilt from the same source data and the change log starts empty.
\* What the cycle before ended with is kept.
RepeatCycle ==
    /\ phase = "prepared"
    /\ previous = NoCycle
    /\ previous' = [t |-> "cycle", tree |-> Contents(actorData, rules), log |-> autoChanges]
    /\ actorData' = BaseData(sourceHp)
    /\ autoChanges' = <<>>
    /\ warnings' = <<>>
    /\ phase' = "applyAEs"
    /\ pos' = 1
    /\ applyCount' = [d \in 1..Len(rules) |-> 0]
    /\ UNCHANGED <<ruleSources, rules, item, sourceHp, rollOptions, binding, everWarned>>

NextRepeat ==
    \/ Construct
    \/ FirstCycle
    \/ RepeatCycle
    \/ onApplyActiveEffects
    \/ beforePrepareData
    \/ afterPrepareData

SpecRepeat == InitRepeat /\ [][NextRepeat]_vars

\* C18: a cycle that repeats the cycle before it, from the same source data,
\* tags and bindings, ends with the same tree and the same change log.
C18_Repeatable ==
    (phase = "prepared" /\ previous # NoCycle)
        => (Contents(actorData, rules) = previous.tree /\ autoChanges = previous.log)
====
